---- MODULE Spec2Model ----
(***************************************************************************)
(* Model of backend/server.js: the credential store (User model), the      *)
(* cookie sessions, the OAuth callback, logout, getGmailClient and the two *)
(* Gmail routes (delete-all-messages, list-messages).                      *)
(*                                                                         *)
(* One action is one macrotask of the Node event loop: it starts when an   *)
(* awaited store or provider call returns, runs the handler's code up to   *)
(* the next await, and leaves the next call in flight.                     *)
(***************************************************************************)
EXTENDS Integers, Sequences, FiniteSets, TLC

\* ---------------------------------------------------------------- bounds
\* Size of the largest mailbox the model starts from.
MaxMsgs == 2001
\* Number of distinct tokens per account the token endpoint issues on refresh;
\* once they are used up it issues the last one again.
NumTokens == 1

\* ------------------------------------------------------ program constants
\* maxResults of the delete route's messages.list call.
maxResults == 500
\* maxResults of the list-messages route's messages.list call.
previewMaxResults == 10
\* const BATCH_SIZE = 1000
BATCH_SIZE == 1000

\* ----------------------------------------------------------------- values
Users    == {1, 2}        \* credential records (_id and googleId coincide)
Sessions == {1, 2}        \* browsers, each holding one session cookie
Runs     == {1, 2}        \* request slots of the two Gmail routes

Null == 0                 \* null / undefined / "" / missing field

\* A token of account u, version v; the provider knows the owner of a token.
Tok(u, v) == u * 10 + v
Owner(t)  == t \div 10
\* The token the endpoint issues to account u after it has issued n.
NextTok(u, n) == Tok(u, IF n < NumTokens THEN n + 1 ELSE NumTokens)

\* Message identifiers of account u: distinct across accounts.
MsgId(u, k) == (u - 1) * (MaxMsgs + 1) + k
Ids(u, n)   == [k \in 1..n |-> MsgId(u, k)]

MailboxSizes ==
    {n \in {0, 1, maxResults + 1, BATCH_SIZE, BATCH_SIZE + 1, MaxMsgs} : n <= MaxMsgs}

\* Errors as the catch blocks see them: error.code and what error.message is.
\* msg: "plain" a string without 're-authenticate', "reauth" a string that
\* contains it, "none" no string at all (error.message undefined or an object).
NoCode == 0
Codes  == {NoCode, 401, 403, 500}
Msgs   == {"plain", "reauth", "none"}
Err(c, m) == [code |-> c, msg |-> m]
Errors == {Err(c, m) : c \in Codes, m \in Msgs}
NoErr  == [code |-> -1, msg |-> "-"]

\* Errors thrown by the servers this program talks to (provider, store): their
\* code and message are not chosen by this program.
UpstreamErrors == Errors

NoDoc  == [accessToken |-> -1, refreshToken |-> -1]
NoReq  == [op |-> "none", maxResults |-> 0, pageToken |-> Null, ids |-> <<>>, token |-> Null]
NoSave == [userId |-> Null, accessToken |-> Null, refreshToken |-> Null]

\* status 0: no response was sent.
NoResp == [status |-> 0, deletedCount |-> -1]

VARIABLES
    store,          \* User collection: _id -> document, or NoDoc
    session,        \* session cookie of each browser: its userId, or Null
    mailbox,        \* provider: account -> sequence of message ids still listed
    trashed,        \* provider: account -> set of ids batchDelete has removed
    run,            \* request slot -> the handler's locals, position and response
    pendingSave,    \* request slot -> the user.save() the 'tokens' handler started
    oauth2ClientGlobal, \* credentials of the shared login-flow client
    cb,             \* browser -> its GET /auth/google/callback request
    loggedOut,      \* history: browser -> its last login was ended by a logout
    issued          \* provider: account -> number of tokens issued on refresh

vars == <<store, session, mailbox, trashed, run, pendingSave, oauth2ClientGlobal, cb,
          loggedOut, issued>>

NoTokens == [access_token |-> Null, refresh_token |-> Null]

IdleCb ==
    [ pc       |-> "idle",
      code     |-> Null,        \* the account that consented
      tokens   |-> NoTokens,    \* const { tokens } = await getToken(code)
      reqToken |-> Null,        \* the access token the userinfo request carries
      data     |-> Null,        \* data.id
      user     |-> NoDoc,       \* the document being saved
      isNew    |-> FALSE,
      status   |-> 0 ]

IdleRun ==
    [ pc            |-> "idle",
      kind          |-> "none",
      sess          |-> Null,       \* the browser the request came from
      afterLogout   |-> FALSE,      \* history: that browser had logged out
      userId        |-> Null,
      user          |-> NoDoc,
      creds         |-> [access_token |-> Null, refresh_token |-> Null],
      allMessageIds |-> <<>>,
      pageToken     |-> Null,
      i             |-> 0,
      deletedCount  |-> 0,
      req           |-> NoReq,
      resp          |-> NoResp,
      err           |-> NoErr,
      \* history of the run, read by the properties only
      nStoreRead    |-> 0,
      nToken        |-> 0,
      nList         |-> 0,
      nBatch        |-> 0,
      nBatchOk      |-> 0,
      chunkLens     |-> <<>>,
      failedOp      |-> "none",
      failedAt      |-> 0,
      refreshed     |-> FALSE,
      persisted     |-> FALSE,
      disturbed     |-> FALSE ]

\* ------------------------------------------------------- pure helpers
Min(a, b) == IF a < b THEN a ELSE b
Range(q)  == {q[k] : k \in 1..Len(q)}
RECURSIVE Sum(_)
Sum(q) == IF q = <<>> THEN 0 ELSE Head(q) + Sum(Tail(q))

\* Array.prototype.slice(from, to) on a 0-based array held as a 1-based sequence.
slice(a, from, to) == SubSeq(a, from + 1, Min(to, Len(a)))

\* Mutant: the new page is put in front of the pages fetched so far.
concat_prepend(a, b) == b \o a

\* allMessageIds.concat(currentMessageIds)
concat(a, b) == a \o b

\* The batch loop's step: i += BATCH_SIZE
NextI(i) == i + BATCH_SIZE

\* Mutant: the enumeration stops after the first page.
MorePages_never(pageToken) == FALSE

\* The do-while condition: while (pageToken)
MorePages(pageToken) == pageToken # Null

\* if (allMessageIds.length === 0)
NothingToDelete(allMessageIds) == Len(allMessageIds) = 0

\* Mutant: the batch loop runs while i <= allMessageIds.length.
ForCond_inclusive(i, allMessageIds) == i <= Len(allMessageIds)

\* The batch loop's condition: i < allMessageIds.length
ForCond(i, allMessageIds) == i < Len(allMessageIds)

\* Mutant: the refresh-token check is skipped.
HasNoRefreshToken_skipped(user) == FALSE

\* getGmailClient's check: if (!user.refreshToken)
HasNoRefreshToken(user) == user.refreshToken = Null

\* Mutant: the session guard is skipped.
NotAuthenticated_skipped(s) == FALSE

\* Session guard of both Gmail routes: !req.session || !req.session.userId
NotAuthenticated(s) == session[s] = Null

\* Mutant: the catch block without its 403 branch.
CatchStatus_no403(e) ==
    IF e.code = 401 THEN {401}
    ELSE IF e.msg = "none" THEN {0, 500}
    ELSE IF e.msg = "reauth" THEN {401}
    ELSE {500}

\* The catch block of both Gmail routes: the status it answers with.  When
\* error.message is no string, error.message.includes throws inside the catch
\* block: the handler's promise rejects and the route sends nothing (0), or the
\* framework's error handler answers 500.
CatchStatus(e) ==
    IF e.code = 401 THEN {401}
    ELSE IF e.msg = "none" THEN {0, 500}
    ELSE IF e.msg = "reauth" THEN {401}
    ELSE IF e.code = 403 THEN {403}
    ELSE {500}

\* The provider's 403 (insufficient scope, API not enabled).
PermissionDenied == Err(403, "plain")

\* Errors getGmailClient throws itself.
UserNotFound   == Err(NoCode, "plain")
NoRefreshToken == Err(NoCode, "reauth")

\* ------------------------------------------------------------ provider
\* messages.list: the ids listed after the cursor, at most n of them, and a
\* continuation token (the last id served) when more remain.
After(mb, cursor) == SelectSeq(mb, LAMBDA x : x > cursor)
Page(mb, cursor, n) == SubSeq(After(mb, cursor), 1, Min(n, Len(After(mb, cursor))))
NextPageToken(mb, cursor, n) ==
    IF Len(After(mb, cursor)) > n THEN Page(mb, cursor, n)[n] ELSE Null
\* The provider serves at most maxResults ids a page, and may serve fewer.
PageLens(max) == {max, max \div 2}

\* ------------------------------------------------------ handler pieces
Respond(rr, status, cnt) ==
    [rr EXCEPT !.pc = "done", !.req = NoReq,
               !.resp = [status |-> status, deletedCount |-> cnt]]

\* Mutant: an empty mailbox is answered 404.
NoMessagesFound_404(rr) == Respond(rr, 404, 0)

\* The delete route's answer when the enumeration found nothing.
NoMessagesFound(rr) == Respond(rr, 200, 0)

\* The delete route's answer after the batch loop.
AllDeleted(rr) == Respond(rr, 200, rr.deletedCount)

\* An error reaches the route's catch block.
Caught(r, rr, e) ==
    \E st \in CatchStatus(e) :
        run' = [run EXCEPT ![r] = Respond([rr EXCEPT !.err = e], st, -1)]

\* gmail.users.messages.list({userId: 'me', maxResults, pageToken}) goes out.
SendList(rr, max, pageToken) ==
    [rr EXCEPT !.pc = "list", !.nList = @ + 1,
               !.req = [op |-> "list", maxResults |-> max, pageToken |-> pageToken,
                        ids |-> <<>>, token |-> rr.creds.access_token]]

\* gmail.users.messages.batchDelete({userId: 'me', requestBody: {ids: batch}})
SendBatch(rr, i) ==
    LET batch == slice(rr.allMessageIds, i, i + BATCH_SIZE) IN
    [rr EXCEPT !.pc = "batchDelete", !.i = i, !.nBatch = @ + 1,
               !.chunkLens = Append(@, Len(batch)),
               !.req = [op |-> "batchDelete", maxResults |-> 0, pageToken |-> Null,
                        ids |-> batch, token |-> rr.creds.access_token]]

\* Mutant: both routes list with the delete route's page size.
GmailReady_samePage(rr) ==
    SendList([rr EXCEPT !.allMessageIds = <<>>, !.pageToken = Null], maxResults, Null)

\* getGmailClient has returned the handle: the route issues its first call.
GmailReady(rr) ==
    LET r1 == [rr EXCEPT !.allMessageIds = <<>>, !.pageToken = Null] IN
    IF rr.kind = "delete" THEN SendList(r1, maxResults, Null)
    ELSE SendList(r1, previewMaxResults, Null)

\* ------------------------------------------------- the two Gmail routes
\* Mutant: only the ids the mailbox still lists are counted.
batchLength_present(batch) ==
    Cardinality({k \in 1..Len(batch) : \E u \in Users : batch[k] \in Range(mailbox[u])})

\* deletedCount += batch.length
batchLength(batch) == Len(batch)

\* Mutant: the lookup returns the first record whatever the id.
findById_first(userId) == store[1]

\* User.findById(userId): the document with that _id, or null.
findById(userId) == store[userId]

\* A request arrives with browser s's cookie: the session guard, then
\* getGmailClient's User.findById(userId) goes out.
Start(r, s, kind) ==
    /\ run[r].pc = "idle"
    /\ pendingSave[r] = NoSave
    /\ LET rr == [IdleRun EXCEPT !.kind = kind, !.sess = s,
                                 !.afterLogout = loggedOut[s]] IN
       IF NotAuthenticated(s)
       THEN run' = [run EXCEPT ![r] = Respond(rr, 401, -1)]
       ELSE run' = [run EXCEPT ![r] =
                [rr EXCEPT !.pc = "findById", !.userId = session[s], !.nStoreRead = 1]]
    /\ UNCHANGED <<store, session, mailbox, trashed, pendingSave, oauth2ClientGlobal, cb, loggedOut, issued>>

\* POST /api/v2/gmail/delete-all-messages
StartDelete(r, s) == Start(r, s, "delete")

\* GET /api/v2/gmail/list-messages
StartList(r, s) == Start(r, s, "list")

\* getGmailClient: User.findById returned.  The two checks, then the
\* per-request client is built from the stored refresh token alone and, having
\* no access token, asks the provider for one.
FindByIdReturn(r) ==
    /\ run[r].pc = "findById"
    /\ LET rr   == run[r]
           user == findById(rr.userId)
           creds == [access_token |-> Null, refresh_token |-> user.refreshToken]
           r1   == [rr EXCEPT !.user = user, !.creds = creds]
       IN  IF user = NoDoc THEN Caught(r, rr, UserNotFound)
           ELSE IF HasNoRefreshToken(user)
                THEN Caught(r, [rr EXCEPT !.user = user], NoRefreshToken)
           ELSE IF creds.access_token = Null
                THEN run' = [run EXCEPT ![r] =
                        [r1 EXCEPT !.pc = "getAccessToken", !.nToken = @ + 1,
                                   !.req = [NoReq EXCEPT !.op = "token",
                                                         !.token = creds.refresh_token]]]
                ELSE run' = [run EXCEPT ![r] = GmailReady(r1)]
    /\ UNCHANGED <<store, session, mailbox, trashed, pendingSave, oauth2ClientGlobal, cb, loggedOut, issued>>

\* getGmailClient: User.findById rejected (the store is unreachable, ...).
FindByIdFail(r, e) ==
    /\ run[r].pc = "findById"
    /\ Caught(r, [run[r] EXCEPT !.failedOp = "findById"], e)
    /\ UNCHANGED <<store, session, mailbox, trashed, pendingSave, oauth2ClientGlobal, cb, loggedOut, issued>>

\* getGmailClient: the token endpoint answered with a new access token and,
\* when withRt, a new refresh token.  The 'tokens' event fires: its
\* handler updates the document and starts user.save(); nobody awaits the
\* handler, so getAccessToken resolves and getGmailClient returns the handle while
\* the save is in flight.  The route then issues its first messages.list.
RefreshOk(r, withRt) ==
    /\ run[r].pc = "getAccessToken"
    /\ LET rr == run[r]
           a  == Owner(rr.req.token)
           at == NextTok(a, issued[a])
           rt == IF withRt THEN at ELSE Null
           user == [accessToken |-> at,
                    refreshToken |-> IF rt # Null THEN rt ELSE rr.user.refreshToken]
           r1 == [rr EXCEPT !.user = user, !.refreshed = TRUE,
                            !.creds = [access_token |-> at,
                                       refresh_token |-> rr.creds.refresh_token]]
       IN  /\ pendingSave' = [pendingSave EXCEPT ![r] =
                    [userId |-> rr.userId, accessToken |-> at, refreshToken |-> rt]]
           /\ run' = [run EXCEPT ![r] = GmailReady(r1)]
           /\ issued' = [issued EXCEPT ![a] = IF @ < NumTokens THEN @ + 1 ELSE @]
    /\ UNCHANGED <<store, session, mailbox, trashed, oauth2ClientGlobal, cb, loggedOut>>

\* Mutant: a failed refresh wipes the stored access token.
RefreshFail_clears(r, e) ==
    /\ run[r].pc = "getAccessToken"
    /\ Caught(r, [run[r] EXCEPT !.failedOp = "token"], e)
    /\ store' = [store EXCEPT ![run[r].userId].accessToken = Null]
    /\ UNCHANGED <<session, mailbox, trashed, pendingSave, oauth2ClientGlobal, cb, loggedOut, issued>>

\* getGmailClient: getAccessToken rejected; the catch rethrows to the route.
RefreshFail(r, e) ==
    /\ run[r].pc = "getAccessToken"
    /\ Caught(r, [run[r] EXCEPT !.failedOp = "token"], e)
    /\ UNCHANGED <<store, session, mailbox, trashed, pendingSave, oauth2ClientGlobal, cb, loggedOut, issued>>

\* Mutant: the 'tokens' handler stores tokens.refresh_token whether or not the
\* response carried one.
SaveDone_unguarded(r) ==
    /\ pendingSave[r] # NoSave
    /\ LET ps == pendingSave[r] IN
       store' = [store EXCEPT ![ps.userId] =
                    [accessToken |-> ps.accessToken, refreshToken |-> ps.refreshToken]]
    /\ pendingSave' = [pendingSave EXCEPT ![r] = NoSave]
    /\ run' = [run EXCEPT ![r].persisted = TRUE]
    /\ UNCHANGED <<session, mailbox, trashed, oauth2ClientGlobal, cb, loggedOut, issued>>

\* The user.save() of the 'tokens' handler reaches the store: it writes the
\* modified paths.
SaveDone(r) ==
    /\ pendingSave[r] # NoSave
    /\ LET ps == pendingSave[r] IN
       store' = [store EXCEPT ![ps.userId] =
                    [accessToken |-> ps.accessToken,
                     refreshToken |-> IF ps.refreshToken # Null THEN ps.refreshToken
                                      ELSE @.refreshToken]]
    /\ pendingSave' = [pendingSave EXCEPT ![r] = NoSave]
    /\ run' = [run EXCEPT ![r].persisted = TRUE]
    /\ UNCHANGED <<session, mailbox, trashed, oauth2ClientGlobal, cb, loggedOut, issued>>

\* The user.save() of the 'tokens' handler rejects: nothing is written, and
\* nothing catches the rejection.
SaveFail(r) ==
    /\ pendingSave[r] # NoSave
    /\ pendingSave' = [pendingSave EXCEPT ![r] = NoSave]
    /\ UNCHANGED <<store, session, mailbox, trashed, run, oauth2ClientGlobal, cb, loggedOut, issued>>

\* delete route: a page of n ids at most arrived.
DeleteListReturn(r, n) ==
    /\ run[r].pc = "list"
    /\ run[r].kind = "delete"
    /\ n \in PageLens(run[r].req.maxResults)
    /\ LET rr  == run[r]
           mb  == mailbox[Owner(rr.req.token)]
           currentMessageIds == Page(mb, rr.req.pageToken, n)
           allMessageIds == concat(rr.allMessageIds, currentMessageIds)
           pageToken == NextPageToken(mb, rr.req.pageToken, n)
           r1  == [rr EXCEPT !.allMessageIds = allMessageIds, !.pageToken = pageToken]
       IN  IF MorePages(pageToken)
           THEN run' = [run EXCEPT ![r] = SendList(r1, maxResults, pageToken)]
           ELSE IF NothingToDelete(allMessageIds)
           THEN run' = [run EXCEPT ![r] = NoMessagesFound(r1)]
           ELSE IF ForCond(0, allMessageIds)
           THEN run' = [run EXCEPT ![r] = SendBatch([r1 EXCEPT !.deletedCount = 0], 0)]
           ELSE run' = [run EXCEPT ![r] = AllDeleted([r1 EXCEPT !.deletedCount = 0])]
    /\ UNCHANGED <<store, session, mailbox, trashed, pendingSave, oauth2ClientGlobal, cb, loggedOut, issued>>

\* Mutant: a failed page request falls through to the batch loop with the pages
\* fetched so far.
ListFail_partial(r, e) ==
    /\ run[r].pc = "list"
    /\ LET rr == [run[r] EXCEPT !.failedOp = "list", !.failedAt = run[r].nList, !.err = e]
       IN  IF ForCond(0, rr.allMessageIds)
           THEN run' = [run EXCEPT ![r] = SendBatch(rr, 0)]
           ELSE Caught(r, rr, e)
    /\ UNCHANGED <<store, session, mailbox, trashed, pendingSave, oauth2ClientGlobal, cb, loggedOut, issued>>

\* Either route: messages.list rejected.
ListFail(r, e) ==
    /\ run[r].pc = "list"
    /\ Caught(r, [run[r] EXCEPT !.failedOp = "list", !.failedAt = run[r].nList], e)
    /\ UNCHANGED <<store, session, mailbox, trashed, pendingSave, oauth2ClientGlobal, cb, loggedOut, issued>>

\* list-messages route: the one page arrived; the route answers 200 with it.
PreviewListReturn(r, n) ==
    /\ run[r].pc = "list"
    /\ run[r].kind = "list"
    /\ n \in PageLens(run[r].req.maxResults)
    /\ LET rr == run[r]
           messages == Page(mailbox[Owner(rr.req.token)], rr.req.pageToken, n)
       IN  run' = [run EXCEPT ![r] =
                Respond([rr EXCEPT !.allMessageIds = messages], 200, -1)]
    /\ UNCHANGED <<store, session, mailbox, trashed, pendingSave, oauth2ClientGlobal, cb, loggedOut, issued>>

\* delete route: batchDelete succeeded; the provider has removed the ids.
BatchReturn(r) ==
    /\ run[r].pc = "batchDelete"
    /\ LET rr    == run[r]
           a     == Owner(rr.req.token)
           gone  == Range(rr.req.ids)
           deletedCount == rr.deletedCount + batchLength(rr.req.ids)
           i     == NextI(rr.i)
           r1    == [rr EXCEPT !.deletedCount = deletedCount, !.nBatchOk = @ + 1]
           mine  == IF ForCond(i, rr.allMessageIds) THEN SendBatch(r1, i)
                    ELSE AllDeleted(r1)
       IN  /\ mailbox' = [mailbox EXCEPT ![a] = SelectSeq(@, LAMBDA x : x \notin gone)]
           /\ trashed' = [trashed EXCEPT ![a] = @ \cup gone]
           /\ run' = [q \in Runs |->
                        IF q = r THEN mine
                        ELSE IF run[q].pc \in {"list", "batchDelete"}
                                /\ Owner(run[q].req.token) = a
                             THEN [run[q] EXCEPT !.disturbed = TRUE]
                             ELSE run[q]]
    /\ UNCHANGED <<store, session, pendingSave, oauth2ClientGlobal, cb, loggedOut, issued>>

\* Mutant: a failed batchDelete call is sent again.
BatchFail_retry(r, e) ==
    /\ run[r].pc = "batchDelete"
    /\ run' = [run EXCEPT ![r] =
            SendBatch([run[r] EXCEPT !.failedOp = "batchDelete",
                                      !.failedAt = run[r].nBatch, !.err = e], run[r].i)]
    /\ UNCHANGED <<store, session, mailbox, trashed, pendingSave, oauth2ClientGlobal, cb, loggedOut, issued>>

\* delete route: batchDelete rejected.
BatchFail(r, e) ==
    /\ run[r].pc = "batchDelete"
    /\ Caught(r, [run[r] EXCEPT !.failedOp = "batchDelete", !.failedAt = run[r].nBatch], e)
    /\ UNCHANGED <<store, session, mailbox, trashed, pendingSave, oauth2ClientGlobal, cb, loggedOut, issued>>

\* The response is out and the handler's save has settled: the slot is free
\* for the next request.
Finish(r) ==
    /\ run[r].pc = "done"
    /\ pendingSave[r] = NoSave
    /\ run' = [run EXCEPT ![r] = IdleRun]
    /\ UNCHANGED <<store, session, mailbox, trashed, pendingSave, oauth2ClientGlobal, cb, loggedOut, issued>>

\* ------------------------------------------------------- auth routes
\* GET /auth/google/callback?code=: the browser comes back from the consent
\* screen of account acct; oauth2ClientGlobal.getToken(code) goes out.
CallbackStart(s, acct) ==
    /\ cb[s].pc = "idle"
    /\ cb' = [cb EXCEPT ![s] = [IdleCb EXCEPT !.pc = "getToken", !.code = acct]]
    /\ UNCHANGED <<store, session, mailbox, trashed, run, pendingSave, oauth2ClientGlobal, loggedOut, issued>>

\* Mutant: the shared client keeps the credentials it was given first.
setCredentials_first(credentials, tokens) ==
    IF credentials = NoTokens THEN tokens ELSE credentials

\* oauth2ClientGlobal.setCredentials(tokens): the client's credentials are
\* replaced.
setCredentials(credentials, tokens) == tokens

\* The Authorization header a request made through a client carries: the
\* access token of the client's credentials at the time the request is built.
Authorization(credentials) == credentials.access_token

\* getToken returned the login's tokens (a refresh token only when rt is not
\* Null): setCredentials on the shared client, then userinfo.get() builds its
\* request from the shared client's credentials before the handler yields.
CbGetTokenOk(s, rt) ==
    /\ cb[s].pc = "getToken"
    /\ rt \in {Null, Tok(cb[s].code, 0)}
    /\ LET tokens == [access_token |-> Tok(cb[s].code, 0), refresh_token |-> rt] IN
       /\ oauth2ClientGlobal' = setCredentials(oauth2ClientGlobal, tokens)
       /\ cb' = [cb EXCEPT ![s] = [@ EXCEPT !.pc = "userinfo", !.tokens = tokens,
                                            !.reqToken = Authorization(oauth2ClientGlobal')]]
    /\ UNCHANGED <<store, session, mailbox, trashed, run, pendingSave, loggedOut, issued>>

\* userinfo.get() returned the profile of the account the request's token
\* belongs to; User.findOne({googleId: data.id}) goes out.
CbUserinfoOk(s) ==
    /\ cb[s].pc = "userinfo"
    /\ cb' = [cb EXCEPT ![s] = [@ EXCEPT !.pc = "findOne", !.data = Owner(cb[s].reqToken)]]
    /\ UNCHANGED <<store, session, mailbox, trashed, run, pendingSave, oauth2ClientGlobal, loggedOut, issued>>

\* findOne returned: a new document, or the existing one with its tokens
\* updated; user.save() goes out.
CbFindOneReturn(s) ==
    /\ cb[s].pc = "findOne"
    /\ LET c == cb[s]
           found == store[c.data]
           user == IF found = NoDoc
                   THEN [accessToken |-> c.tokens.access_token,
                         refreshToken |-> c.tokens.refresh_token]
                   ELSE [accessToken |-> c.tokens.access_token,
                         refreshToken |-> IF c.tokens.refresh_token # Null
                                          THEN c.tokens.refresh_token
                                          ELSE found.refreshToken]
       IN  cb' = [cb EXCEPT ![s] = [c EXCEPT !.pc = "save", !.user = user,
                                             !.isNew = (found = NoDoc)]]
    /\ UNCHANGED <<store, session, mailbox, trashed, run, pendingSave, oauth2ClientGlobal, loggedOut, issued>>

\* The schema: refreshToken is required, googleId is unique.
SaveRejected(user, isNew, id) ==
    \/ user.refreshToken = Null
    \/ isNew /\ store[id] # NoDoc

\* user.save() returned: the session gets the userId and the browser is
\* redirected; a save the schema rejects lands in the catch block (500).
CbSaveReturn(s) ==
    /\ cb[s].pc = "save"
    /\ LET c == cb[s] IN
       IF SaveRejected(c.user, c.isNew, c.data)
       THEN /\ cb' = [cb EXCEPT ![s] = [c EXCEPT !.pc = "done", !.status = 500]]
            /\ UNCHANGED <<store, session, loggedOut>>
       ELSE /\ store' = [store EXCEPT ![c.data] =
                    IF c.isNew THEN c.user
                    ELSE [accessToken |-> c.user.accessToken,
                          refreshToken |-> IF c.tokens.refresh_token # Null
                                           THEN c.user.refreshToken
                                           ELSE @.refreshToken]]
            /\ session' = [session EXCEPT ![s] = c.data]
            /\ loggedOut' = [loggedOut EXCEPT ![s] = FALSE]
            /\ cb' = [cb EXCEPT ![s] = [c EXCEPT !.pc = "done", !.status = 302]]
    /\ UNCHANGED <<mailbox, trashed, run, pendingSave, oauth2ClientGlobal, issued>>

\* Any awaited call of the callback rejected: the catch block answers 500.
CbFail(s) ==
    /\ cb[s].pc \in {"getToken", "userinfo", "findOne", "save"}
    /\ cb' = [cb EXCEPT ![s] = [@ EXCEPT !.pc = "done", !.status = 500]]
    /\ UNCHANGED <<store, session, mailbox, trashed, run, pendingSave, oauth2ClientGlobal, loggedOut, issued>>

CbFinish(s) ==
    /\ cb[s].pc = "done"
    /\ cb' = [cb EXCEPT ![s] = IdleCb]
    /\ UNCHANGED <<store, session, mailbox, trashed, run, pendingSave, oauth2ClientGlobal, loggedOut, issued>>

\* GET /api/logout: req.session = null
Logout(s) ==
    /\ session' = [session EXCEPT ![s] = Null]
    /\ loggedOut' = [loggedOut EXCEPT ![s] = @ \/ session[s] # Null]
    /\ UNCHANGED <<store, mailbox, trashed, run, pendingSave, oauth2ClientGlobal, cb, issued>>

\* cookieSession's maxAge: the browser drops the cookie when it expires.
SessionExpire(s) ==
    /\ session[s] # Null
    /\ session' = [session EXCEPT ![s] = Null]
    /\ UNCHANGED <<store, mailbox, trashed, run, pendingSave, oauth2ClientGlobal, cb,
                   loggedOut, issued>>

\* ------------------------------------------------------ specifications
ValidDoc(u) == [accessToken |-> Tok(u, 0), refreshToken |-> Tok(u, 0)]
\* A document whose refresh token is empty (written before the schema required it).
NoRefreshDoc(u) == [accessToken |-> Tok(u, 0), refreshToken |-> Null]

\* The delete workflow alone: browser 1 is logged in as user 1, browser 2 is not
\* logged in; user 1's document is there, lacks its refresh token, or is gone.
Init ==
    /\ store \in {[u \in Users |-> IF u = 1 THEN d ELSE NoDoc] :
                    d \in {ValidDoc(1), NoRefreshDoc(1), NoDoc}}
    /\ session = [s \in Sessions |-> IF s = 1 THEN 1 ELSE Null]
    /\ mailbox \in {[u \in Users |-> IF u = 1 THEN Ids(1, n) ELSE <<>>] : n \in MailboxSizes}
    /\ trashed = [u \in Users |-> {}]
    /\ run = [r \in Runs |-> IdleRun]
    /\ pendingSave = [r \in Runs |-> NoSave]
    /\ oauth2ClientGlobal = NoTokens
    /\ cb = [s \in Sessions |-> IdleCb]
    /\ loggedOut = [s \in Sessions |-> FALSE]
    /\ issued = [u \in Users |-> 0]

DeleteRun(r, errs) ==
    \/ \E s \in Sessions : StartDelete(r, s)
    \/ FindByIdReturn(r)
    \/ \E e \in errs : FindByIdFail(r, e)
    \/ \E withRt \in BOOLEAN : RefreshOk(r, withRt)
    \/ \E e \in errs : RefreshFail(r, e)
    \/ SaveDone(r)
    \/ SaveFail(r)
    \/ \E n \in PageLens(maxResults) : DeleteListReturn(r, n)
    \/ \E e \in errs : ListFail(r, e)
    \/ BatchReturn(r)
    \/ \E e \in errs : BatchFail(r, e)
    \/ Finish(r)

Next == DeleteRun(1, UpstreamErrors)

Spec == Init /\ [][Next]_vars

\* The call slot r has in flight returns, with a result or with an error.
CallReturns(r) ==
    \/ FindByIdReturn(r)
    \/ \E e \in UpstreamErrors : FindByIdFail(r, e)
    \/ \E withRt \in BOOLEAN : RefreshOk(r, withRt)
    \/ \E e \in UpstreamErrors : RefreshFail(r, e)
    \/ \E n \in PageLens(maxResults) : DeleteListReturn(r, n)
    \/ \E e \in UpstreamErrors : ListFail(r, e)
    \/ BatchReturn(r)
    \/ \E e \in UpstreamErrors : BatchFail(r, e)

\* The save the 'tokens' handler of slot r started settles.
SaveSettles(r) == SaveDone(r) \/ SaveFail(r)

\* The delete workflow when every store and provider call eventually returns:
\* the event loop runs the handler's continuation once its awaited call has
\* settled.  Requests need not keep arriving.
SpecLive ==
    /\ Init
    /\ [][Next]_vars
    /\ WF_vars(CallReturns(1))
    /\ WF_vars(SaveSettles(1))

\* Login, logout and both Gmail routes: nobody is logged in at the start, the
\* store is empty, the mailboxes are small.

InitAuth ==
    /\ store = [u \in Users |-> NoDoc]
    /\ session = [s \in Sessions |-> Null]
    /\ mailbox = [u \in Users |-> Ids(u, 3 - u)]
    /\ trashed = [u \in Users |-> {}]
    /\ run = [r \in Runs |-> IdleRun]
    /\ pendingSave = [r \in Runs |-> NoSave]
    /\ oauth2ClientGlobal = NoTokens
    /\ cb = [s \in Sessions |-> IdleCb]
    /\ loggedOut = [s \in Sessions |-> FALSE]
    /\ issued = [u \in Users |-> 0]

Callback(s, accts) ==
    \/ \E acct \in accts : CallbackStart(s, acct)
    \/ \E rt \in {Null} \cup {Tok(u, 0) : u \in Users} : CbGetTokenOk(s, rt)
    \/ CbUserinfoOk(s)
    \/ CbFindOneReturn(s)
    \/ CbSaveReturn(s)
    \/ CbFail(s)
    \/ CbFinish(s)

ListRun(r) ==
    \/ \E s \in Sessions : StartList(r, s)
    \/ \E n \in PageLens(previewMaxResults) : PreviewListReturn(r, n)

NextAuth ==
    \/ Callback(1, {1})
    \/ Logout(1)
    \/ SessionExpire(1)
    \/ DeleteRun(1, {PermissionDenied})
    \/ ListRun(1)

SpecAuth == InitAuth /\ [][NextAuth]_vars

\* Two browsers log in at the same time, each with either Google account.
NextLogin ==
    \/ Callback(1, Users)
    \/ Callback(2, Users)

SpecLogin == InitAuth /\ [][NextLogin]_vars

\* Two delete requests at the same time: browser 1 is logged in as user 1,
\* browser 2 as user 2, and each request comes from either browser.
InitTwo ==
    /\ store = [u \in Users |-> ValidDoc(u)]
    /\ session = [s \in Sessions |-> s]
    /\ mailbox = [u \in Users |-> Ids(u, 3 - u)]
    /\ trashed = [u \in Users |-> {}]
    /\ run = [r \in Runs |-> IdleRun]
    /\ pendingSave = [r \in Runs |-> NoSave]
    /\ oauth2ClientGlobal = NoTokens
    /\ cb = [s \in Sessions |-> IdleCb]
    /\ loggedOut = [s \in Sessions |-> FALSE]
    /\ issued = [u \in Users |-> 0]

\* A delete request in slot r; here the token endpoint answers a refresh with
\* an access token only, and a failing call fails with the provider's 403.
ConcurrentRun(r) ==
    \/ \E s \in Sessions : StartDelete(r, s)
    \/ FindByIdReturn(r)
    \/ FindByIdFail(r, PermissionDenied)
    \/ RefreshOk(r, FALSE)
    \/ RefreshFail(r, PermissionDenied)
    \/ SaveDone(r)
    \/ SaveFail(r)
    \/ \E n \in PageLens(maxResults) : DeleteListReturn(r, n)
    \/ ListFail(r, PermissionDenied)
    \/ BatchReturn(r)
    \/ BatchFail(r, PermissionDenied)
    \/ Finish(r)

NextTwo ==
    \/ ConcurrentRun(1)
    \/ ConcurrentRun(2)

SpecTwo == InitTwo /\ [][NextTwo]_vars

\* Browser 1, logged in as user 1, whose mailbox holds more than one preview
\* page, sends list-messages and delete-all-messages requests one after the other.
InitList ==
    /\ store = [u \in Users |-> IF u = 1 THEN ValidDoc(1) ELSE NoDoc]
    /\ session = [s \in Sessions |-> IF s = 1 THEN 1 ELSE Null]
    /\ mailbox = [u \in Users |-> IF u = 1 THEN Ids(1, previewMaxResults + 2) ELSE <<>>]
    /\ trashed = [u \in Users |-> {}]
    /\ run = [r \in Runs |-> IdleRun]
    /\ pendingSave = [r \in Runs |-> NoSave]
    /\ oauth2ClientGlobal = NoTokens
    /\ cb = [s \in Sessions |-> IdleCb]
    /\ loggedOut = [s \in Sessions |-> FALSE]
    /\ issued = [u \in Users |-> 0]

NextList ==
    \/ ListRun(1)
    \/ DeleteRun(1, {PermissionDenied, Err(401, "plain")})

SpecList == InitList /\ [][NextList]_vars

\* ================================================================ claims
Ceil(n, d) == (n + d - 1) \div d

\* The account a run's provider calls act on.
Account(rr) == Owner(rr.creds.access_token)

\* The enumeration loop of a delete run has ended normally.
Enumerated(rr) ==
    /\ rr.kind = "delete"
    /\ rr.nList > 0
    /\ \/ rr.pc = "batchDelete"
       \/ rr.pc = "done" /\ rr.failedOp # "list"

\* C1: a delete run whose enumeration completes with zero message ids answers
\* 200 with deletedCount 0 and issues no batchDelete call.
C1_EmptyMailbox ==
    \A r \in Runs :
        Enumerated(run[r]) /\ Len(run[r].allMessageIds) = 0
        => /\ run[r].pc = "done"
           /\ run[r].resp = [status |-> 200, deletedCount |-> 0]
           /\ run[r].nBatch = 0

\* C1 witness: a delete run has enumerated an empty mailbox and answered.
C1_Witness ==
    \E r \in Runs :
        /\ Enumerated(run[r]) /\ run[r].allMessageIds = <<>>
        /\ mailbox[Account(run[r])] = <<>>
        /\ run[r].resp.status = 200

\* C2: over a mailbox of N > 0 messages served in order in pages of at most 500,
\* every page request after the first carries the previous response's token, the
\* loop ends only on a response without a token, and the accumulated list is the
\* mailbox in order (length N, nothing duplicated, nothing missing).
C2_Enumeration ==
    \A r \in Runs :
        LET rr == run[r] IN
        /\ rr.kind = "delete" /\ rr.pc = "list"
           => /\ rr.req.pageToken = rr.pageToken
              /\ rr.req.maxResults = maxResults
              /\ (rr.nList > 1) = (rr.pageToken # Null)
              /\ rr.disturbed
                 \/ rr.allMessageIds =
                        SubSeq(mailbox[Account(rr)], 1, Len(rr.allMessageIds))
        /\ Enumerated(rr) => rr.pageToken = Null
        /\ Enumerated(rr) /\ ~rr.disturbed /\ rr.nBatchOk = 0
           => rr.allMessageIds = mailbox[Account(rr)]

\* C2 witness: a mailbox of MaxMsgs messages was enumerated in more than four pages.
C2_Witness ==
    \E r \in Runs :
        /\ Enumerated(run[r]) /\ ~run[r].disturbed /\ run[r].nBatchOk = 0
        /\ run[r].nList > 4
        /\ Len(run[r].allMessageIds) = MaxMsgs

\* C3: when every batchDelete call succeeds, a list of N ids is sent in exactly
\* ceil(N/1000) calls of 1..1000 ids each, chunk k being the k-th consecutive
\* slice of the list, the sizes sum to N and deletedCount is N.
C3_Chunks ==
    \A r \in Runs :
        LET rr == run[r]
            N  == Len(rr.allMessageIds)
            k  == Len(rr.chunkLens)
        IN
        /\ rr.pc = "batchDelete"
           => /\ rr.nBatch = k /\ rr.nBatchOk = k - 1
              /\ Len(rr.req.ids) = rr.chunkLens[k]
              /\ rr.req.ids = SubSeq(rr.allMessageIds, Sum(SubSeq(rr.chunkLens, 1, k - 1)) + 1,
                                     Sum(rr.chunkLens))
              /\ rr.chunkLens[k] \in 1..BATCH_SIZE
        /\ rr.kind = "delete" /\ rr.pc = "done" /\ rr.resp.status = 200
           => /\ rr.nBatch = Ceil(N, BATCH_SIZE)
              /\ rr.nBatchOk = rr.nBatch
              /\ k = rr.nBatch
              /\ \A j \in 1..k : rr.chunkLens[j] \in 1..BATCH_SIZE
              /\ Sum(rr.chunkLens) = N
              /\ rr.resp.deletedCount = N

\* C3 witness: a run answered 200 after three successful batchDelete calls.
C3_Witness ==
    \E r \in Runs :
        /\ run[r].pc = "done" /\ run[r].resp.status = 200
        /\ run[r].nBatchOk = 3
        /\ run[r].chunkLens[3] < BATCH_SIZE

\* C4: a run whose resolved credential record has an empty refresh token ends in
\* 401 without a token request, a messages.list call or a batchDelete call.
C4_NoRefreshToken ==
    \A r \in Runs :
        run[r].user # NoDoc /\ run[r].user.refreshToken = Null
        => /\ run[r].pc = "done"
           /\ run[r].resp.status = 401
           /\ run[r].nToken = 0 /\ run[r].nList = 0 /\ run[r].nBatch = 0

\* C4 witness: a delete run resolved a record without refresh token.
C4_Witness ==
    \E r \in Runs :
        /\ run[r].kind = "delete" /\ run[r].nStoreRead = 1
        /\ run[r].user # NoDoc /\ run[r].user.refreshToken = Null
        /\ run[r].pc = "done"

\* C5 (as claimed): once getGmailClient has returned the handle after a
\* successful refresh, the save of the new tokens has completed.
C5_PersistedBeforeReturn ==
    \A r \in Runs :
        run[r].refreshed /\ run[r].nList > 0 => run[r].persisted

\* The status the claim's classification by code alone gives.
ByCode(c) == IF c = 401 THEN 401 ELSE IF c = 403 THEN 403 ELSE 500

\* A delete run ended on a failed messages.list or batchDelete call whose error
\* carries a message text.
FailedCall(rr) ==
    /\ rr.kind = "delete" /\ rr.pc = "done"
    /\ rr.failedOp \in {"list", "batchDelete"}
    /\ rr.err.msg # "none"

C7_RefreshFailureIs401 ==
    \A r \in Runs :
        run[r].kind = "delete" /\ run[r].pc = "done" /\ run[r].failedOp = "token"
        /\ run[r].err.msg # "none"
        => run[r].resp.status = 401

C9_ListFailureStopsRun ==
    \A r \in Runs :
        run[r].kind = "delete" /\ run[r].failedOp = "list"
        => /\ run[r].pc = "done"
           /\ run[r].nBatch = 0 /\ run[r].nBatchOk = 0
           /\ run[r].nList = run[r].failedAt

\* C9 witness: the third page request failed after two pages had arrived.
C9_Witness ==
    \E r \in Runs :
        /\ run[r].kind = "delete" /\ run[r].failedOp = "list"
        /\ run[r].failedAt = 3
        /\ Len(run[r].allMessageIds) = 2 * maxResults

\* The store and provider calls a request has made.
NoCalls(rr) ==
    rr.nStoreRead = 0 /\ rr.nToken = 0 /\ rr.nList = 0 /\ rr.nBatch = 0

\* C10: a session's userId is set only by a successful callback (to the record
\* that callback saved) and is gone after logout until the next successful
\* callback; a Gmail request takes its userId from the session it comes with,
\* and a request without one is answered 401 before any store read or provider
\* call.
C10_SessionGuard ==
    /\ [](\A s \in Sessions : loggedOut[s] => session[s] = Null)
    /\ [](\A r \in Runs :
            run[r].pc # "idle" /\ run[r].userId = Null
            => run[r].pc = "done" /\ run[r].resp.status = 401 /\ NoCalls(run[r]))
    /\ [][\A r \in Runs :
            run[r].pc = "idle" /\ run'[r].pc # "idle"
            => run'[r].userId = session[run'[r].sess]]_vars
    /\ [][\A s \in Sessions :
            session'[s] # session[s]
            => \/ /\ session'[s] # Null
                  /\ cb[s].pc = "save" /\ cb'[s].status = 302
                  /\ session'[s] = cb[s].data
               \/ /\ session'[s] = Null
                  /\ UNCHANGED <<store, mailbox, trashed, run, cb>>]_vars

\* C10 witness: a delete request made after logout was answered 401.
C10_Witness ==
    \E r \in Runs :
        /\ run[r].kind = "delete" /\ run[r].afterLogout
        /\ run[r].pc = "done" /\ run[r].userId = Null /\ run[r].resp.status = 401

\* C11 (as claimed): every delete request that has ended has sent a response
\* whose status is 200, 401, 403 or 500, whatever the store and provider calls
\* threw.
C11_AlwaysAnswered ==
    \A r \in Runs :
        run[r].kind = "delete" /\ run[r].pc = "done"
        => run[r].resp.status \in {200, 401, 403, 500}

\* C12 (as claimed): a request whose session userId resolves to no stored
\* record is answered 401 and makes no provider call.
C12_UnresolvedIs401 ==
    \A r \in Runs :
        /\ run[r].pc = "done" /\ run[r].nStoreRead = 1
        /\ run[r].failedOp = "none" /\ run[r].err = UserNotFound
        => /\ run[r].resp.status = 401
           /\ run[r].nToken = 0 /\ run[r].nList = 0 /\ run[r].nBatch = 0

\* The provider calls a run has sent so far.
Sent(rr) == rr.nToken + rr.nList + rr.nBatch

\* C13: within one delete run the provider calls are sequential: a call is sent
\* only in the step in which the previous one returned, a page request carries
\* the token of the page before it, the first batchDelete follows the arrival of
\* the page without token, chunk k+1 follows the return of chunk k, and no
\* page is requested once a batchDelete call was sent.
C13_Sequential ==
    /\ [](\A r \in Runs :
            LET rr == run[r] IN
            rr.kind = "delete"
            => /\ (rr.req # NoReq) = (rr.pc \in {"getAccessToken", "list", "batchDelete"})
               /\ rr.pc = "list" => rr.nBatch = 0 /\ rr.req.pageToken = rr.pageToken
               /\ rr.nBatch > 0 => rr.pageToken = Null
               /\ rr.pc = "batchDelete" => rr.nBatchOk = rr.nBatch - 1
               /\ rr.pc = "done" => rr.nBatchOk \in {rr.nBatch, rr.nBatch - 1})
    /\ [][\A r \in Runs :
            LET rr == run[r]
                nx == run'[r]
            IN  rr.kind = "delete" /\ nx.pc # "idle" /\ Sent(nx) # Sent(rr)
                => /\ Sent(nx) = Sent(rr) + 1
                   /\ nx.req # NoReq /\ nx.req # rr.req
                   /\ nx.nList = rr.nList + 1 /\ rr.nList > 0
                      => rr.pc = "list" /\ nx.req.pageToken # Null
                         /\ nx.req.pageToken = nx.allMessageIds[Len(nx.allMessageIds)]
                   /\ nx.nBatch = rr.nBatch + 1
                      => /\ rr.pc = IF rr.nBatch = 0 THEN "list" ELSE "batchDelete"
                         /\ nx.nBatchOk = rr.nBatch
                         /\ nx.pageToken = Null]_vars

\* C13 witness: the second chunk of a run is in flight, after three pages and
\* the first chunk have returned.
C13_Witness ==
    \E r \in Runs :
        /\ run[r].pc = "batchDelete" /\ run[r].nBatch = 2 /\ run[r].nBatchOk = 1
        /\ run[r].nList = 3

\* C14: whatever the interleaving of the callbacks, each callback asks for the
\* user info with the access token its own code was exchanged for, looks up and
\* saves the record of that account with its own tokens, and sets its own
\* session to that record.
C14_CallbacksIsolated ==
    /\ [](\A s \in Sessions :
            LET c == cb[s] IN
            /\ c.pc \in {"userinfo", "findOne", "save"}
               => c.reqToken = c.tokens.access_token /\ Owner(c.reqToken) = c.code
            /\ c.pc \in {"findOne", "save"} => c.data = c.code
            /\ c.pc = "save" => c.user.accessToken = c.tokens.access_token
            /\ c.pc = "done" /\ c.status = 302
               => /\ c.data = c.code
                  /\ store[c.code] # NoDoc
                  /\ Owner(store[c.code].accessToken) = c.code
                  /\ Owner(store[c.code].refreshToken) = c.code)
    /\ [][\A s \in Sessions :
            cb[s].pc = "save" /\ cb'[s].status = 302
            => /\ session'[s] = cb[s].code
               /\ store'[cb[s].code].accessToken = cb[s].tokens.access_token
               /\ cb[s].tokens.refresh_token # Null
                  => store'[cb[s].code].refreshToken = cb[s].tokens.refresh_token
               /\ \A u \in Users \ {cb[s].code} : store'[u] = store[u]]_vars

\* C14 witness: a callback has logged its browser in while the shared client
\* held the credentials of the other account, whose callback is still running.
C14_Witness ==
    \E s, t \in Sessions :
        /\ cb[s].pc = "done" /\ cb[s].status = 302 /\ session[s] = cb[s].code
        /\ cb[t].pc \in {"userinfo", "findOne", "save"} /\ cb[t].code # cb[s].code
        /\ oauth2ClientGlobal.access_token = cb[t].tokens.access_token

\* The account a message identifier belongs to (the inverse of MsgId).
MsgOwner(id) == (id - 1) \div (MaxMsgs + 1) + 1

\* All ids of the list q are ids of account u.
OwnIds(q, u) == \A k \in 1..Len(q) : MsgOwner(q[k]) = u

\* C15: in every interleaving of two delete runs, each run's token, list and
\* batchDelete requests carry credentials of its own user, the ids it lists and
\* submits are ids of its own user's mailbox, ids leave only the mailbox of the
\* run whose call returned, and a save writes only the record of the run's user,
\* with tokens of that user.
C15_RunsIsolated ==
    /\ [](\A r \in Runs :
            LET rr == run[r] IN
            /\ rr.req # NoReq
               => /\ Owner(rr.req.token) = rr.userId
                  /\ OwnIds(rr.req.ids, rr.userId)
            /\ rr.userId # Null => OwnIds(rr.allMessageIds, rr.userId)
            /\ pendingSave[r] # NoSave
               => /\ pendingSave[r].userId = rr.userId
                  /\ Owner(pendingSave[r].accessToken) = rr.userId
                  /\ pendingSave[r].refreshToken \in {Null, pendingSave[r].accessToken})
    /\ [][\A u \in Users :
            /\ store'[u] # store[u]
               => \E r \in Runs :
                    /\ run[r].userId = u /\ pendingSave[r].userId = u
                    /\ pendingSave'[r] = NoSave
                    /\ store'[u].accessToken = pendingSave[r].accessToken
            /\ trashed'[u] # trashed[u]
               => \E r \in Runs :
                    /\ run[r].userId = u /\ run[r].pc = "batchDelete"
                    /\ run'[r].nBatchOk = run[r].nBatchOk + 1
                    /\ trashed'[u] = trashed[u] \cup Range(run[r].req.ids)]_vars

\* C15 witness: the runs of two different users overlap, each has refreshed its
\* token and had a batchDelete call succeed, and one is still deleting.
C15_Witness ==
    /\ run[1].userId # Null /\ run[2].userId # Null
    /\ run[1].userId # run[2].userId
    /\ run[1].pc = "batchDelete" /\ run[2].pc = "done"
    /\ run[2].nBatchOk = 1 /\ run[2].persisted
    /\ trashed[run[2].userId] # {}
    /\ pendingSave[1] # NoSave

\* C16: a run that answers 200 reports the number of ids it listed and
\* submitted, whether or not another run had removed them already, while the
\* provider only ever moves a message from the mailbox to the trash; nothing
\* keeps a second request of the same user from running at the same time (the
\* witness is the interleaving the claim names).
C16_CountsSubmittedIds ==
    /\ \A r \in Runs :
        run[r].kind = "delete" /\ run[r].pc = "done" /\ run[r].resp.status = 200
        => run[r].resp.deletedCount = Len(run[r].allMessageIds)
    /\ \A u \in Users : Cardinality(trashed[u]) + Len(mailbox[u]) = 3 - u

\* C16 witness: two runs of the same user have both listed and submitted the
\* same message id and both answered 200; their deletedCount values add up to
\* more than the mailbox held.
C16_Witness ==
    /\ run[1].pc = "done" /\ run[2].pc = "done"
    /\ run[1].userId = run[2].userId /\ run[1].userId # Null
    /\ run[1].resp.status = 200 /\ run[2].resp.status = 200
    /\ Range(run[1].allMessageIds) \cap Range(run[2].allMessageIds) # {}
    /\ run[1].nBatchOk > 0 /\ run[2].nBatchOk > 0
    /\ run[1].resp.deletedCount + run[2].resp.deletedCount
            > Cardinality(trashed[run[1].userId]) + Len(mailbox[run[1].userId])

\* The 'tokens' handler's save reaches the store and writes record u.
RefreshWrites(u) ==
    \E r \in Runs :
        /\ pendingSave[r].userId = u /\ pendingSave'[r] = NoSave
        /\ run[r].refreshed
        /\ store'[u].accessToken = pendingSave[r].accessToken

\* A callback's save succeeds and writes record u.
CallbackWrites(u) ==
    \E s \in Sessions :
        /\ cb[s].pc = "save" /\ cb'[s].status = 302 /\ cb[s].data = u
        /\ store'[u].accessToken = cb[s].tokens.access_token

\* C17 (as claimed): the token fields of an existing record change only in a
\* save of the 'tokens' handler, after a successful refresh.
C17_OnlyRefreshWrites ==
    [][\A u \in Users :
         store[u] # NoDoc /\ store'[u] # store[u] => RefreshWrites(u)]_vars

\* C17 (amended): the token fields of an existing record change only in a save
\* of the 'tokens' handler after a successful refresh, or in the save of a
\* successful OAuth callback for that account; a save is pending only after a
\* successful refresh.
C17_RefreshOrCallbackWrites ==
    /\ [](\A r \in Runs :
            pendingSave[r] # NoSave
            => /\ run[r].refreshed /\ run[r].failedOp # "token"
               /\ pendingSave[r].accessToken = run[r].creds.access_token)
    /\ [][\A u \in Users :
            store[u] # NoDoc /\ store'[u] # store[u]
            => RefreshWrites(u) \/ CallbackWrites(u)]_vars

\* C17 witness: a repeated login has overwritten the access token a refresh had
\* stored on the record.
C17_Witness ==
    \E s \in Sessions, r \in Runs :
        /\ cb[s].pc = "done" /\ cb[s].status = 302 /\ ~cb[s].isNew
        /\ run[r].pc = "done" /\ run[r].persisted /\ run[r].userId = cb[s].data
        /\ store[cb[s].data].accessToken = cb[s].tokens.access_token
        /\ run[r].user.accessToken # cb[s].tokens.access_token

\* C18: a stored record has a non-empty refresh token and keeps one; the
\* refresh token changes only in the save of a handler whose token response
\* carried a refresh token, and then to that token; the save of a handler whose
\* token response carried none leaves it as it is.
C18_RefreshTokenKept ==
    /\ [](\A u \in Users : store[u] # NoDoc => store[u].refreshToken # Null)
    /\ [][\A u \in Users :
            store[u] # NoDoc
            => /\ store'[u] # NoDoc
               /\ store'[u].refreshToken # Null
               /\ store'[u].refreshToken # store[u].refreshToken
                  => \/ \E r \in Runs :
                          /\ pendingSave[r].userId = u /\ pendingSave'[r] = NoSave
                          /\ pendingSave[r].refreshToken # Null
                          /\ store'[u].refreshToken = pendingSave[r].refreshToken
                          /\ Owner(pendingSave[r].refreshToken) = u
                     \/ \E s \in Sessions :
                          /\ cb[s].pc = "save" /\ cb'[s].status = 302 /\ cb[s].data = u
                          /\ cb[s].tokens.refresh_token # Null
                          /\ store'[u].refreshToken = cb[s].tokens.refresh_token]_vars

\* C18 witness: a refresh answered with a new refresh token and the record now
\* holds it, while the run's client still holds the one it was built from.
C18_Witness ==
    \E r \in Runs :
        /\ run[r].persisted /\ run[r].userId # Null
        /\ store[run[r].userId].refreshToken = run[r].user.refreshToken
        /\ run[r].user.refreshToken # run[r].creds.refresh_token

\* C19: a list-messages request sends at most one messages.list call, with
\* maxResults 10 and no page token, answers with at most 10 ids, sends no
\* batchDelete call, and no step taken while it is being served changes a
\* mailbox or the trash.
C19_ListReadsOnly ==
    /\ [](\A r \in Runs :
            LET rr == run[r] IN
            rr.kind = "list"
            => /\ rr.nList <= 1 /\ rr.nBatch = 0 /\ rr.chunkLens = <<>>
               /\ rr.req.op \in {"none", "token", "list"}
               /\ rr.pc = "list"
                  => rr.req.maxResults = previewMaxResults /\ rr.req.pageToken = Null
               /\ Len(rr.allMessageIds) <= previewMaxResults)
    /\ [][(\E r \in Runs : run[r].kind = "list" \/ run'[r].kind = "list")
            => UNCHANGED <<mailbox, trashed>>]_vars

\* C19 witness: a list-messages request answered 200 with one page of 10 ids
\* out of a mailbox that holds more.
C19_Witness ==
    \E r \in Runs :
        /\ run[r].kind = "list" /\ run[r].pc = "done" /\ run[r].resp.status = 200
        /\ run[r].nList = 1
        /\ Len(run[r].allMessageIds) = previewMaxResults
        /\ Len(mailbox[run[r].userId]) > previewMaxResults

\* C20 (as claimed): getGmailClient sends a token request only for a record
\* that holds no access token.
C20_RefreshOnlyWithoutAccessToken ==
    \A r \in Runs :
        run[r].pc = "getAccessToken" /\ run[r].nToken > 0
        => run[r].user.accessToken = Null

\* A delete request is being served in slot r.
Serving(r) == run[r].kind = "delete" /\ run[r].pc \notin {"idle", "done"}

\* C21 (as claimed): when every call eventually returns, every delete run
\* eventually sends a response.
C21_EventuallyAnswered ==
    \A r \in Runs :
        Serving(r) ~> (run[r].pc = "done" /\ run[r].resp.status \in {200, 401, 403, 500})

\* C21, the part that holds: when every call eventually returns the handler of
\* every delete run eventually ends; a page without token ends the enumeration
\* loop, and every pass of the batch loop moves i forward by a positive amount,
\* past ids not sent before.
C21_HandlerEnds ==
    /\ \A r \in Runs : Serving(r) ~> run[r].pc = "done"
    /\ [][\A r \in Runs :
            /\ run[r].pc = "list" /\ run[r].kind = "delete"
                  /\ run'[r].nList > run[r].nList
               => /\ run'[r].pageToken # Null
                  /\ Len(run'[r].allMessageIds) > Len(run[r].allMessageIds)
            /\ run[r].pc = "batchDelete" /\ run'[r].nBatch > run[r].nBatch
               => /\ run'[r].i > run[r].i
                  /\ run'[r].i < Len(run[r].allMessageIds)
                  /\ run'[r].deletedCount = run'[r].i]_vars

====
